---- MODULE Spec2Model ----
(***************************************************************************)
(* Model of ComparisonChatService (app/services/comparison_chat.py): one   *)
(* query against the service, in one of its three delivery modes           *)
(* (query_agent, query_agent_async, query_agent_ws), together with the     *)
(* reasoning run it launches and the event sink the run reports to; and,  *)
(* under ConcSpec, several pull queries running at once on one service.    *)
(***************************************************************************)
EXTENDS Integers, Sequences, FiniteSets, TLC

VARIABLES
    pc,             \* position of the query coroutine / generator: "idle" |
                    \*   "running" | "streaming" | "await_task" | "done" |
                    \*   "closed" (generator closed in the loop) |
                    \*   "cancelled" (consumer cancelled in `await task`)
    mode,           \* "none" | "blocking" | "pull" | "push": the entry point called;
                    \*   "direct" | "components": initialize_agent /
                    \*   initialize_components called on its own
    agent,          \* the AgentExecutor create_agent returned, or NoAgent
    stream_handler, \* kind of handler create_agent returned: "none" | "async" | "ws"
    prompt,         \* the prompt initialize_components rendered ("" before)
    fetches,        \* calls of orkg_client.contributions.compare_dataframe
    runs,           \* calls of agent.run / agent.arun
    taskCreated,    \* asyncio.create_task was called (pull mode)
    taskAwaited,    \* `await task` completed (pull mode)
    run,            \* "none" | "active" | "finished" | "stopped" | "failed"
    runText,        \* the string the run returned, or the name of its error
    iterations,     \* steps the executor has taken
    elapsed,        \* time the executor has spent, in units of max_execution_time
    produced,       \* every event the backend produced, in order (history)
    queue,          \* pull sink: events not yet drained
    sinkDone,       \* pull sink: no further event will be queued
    received,       \* pull mode: events yielded to the consumer, in order
    channel,        \* push transport: "none" | "open" | "closed" | "missing"
    sent,           \* push mode: frames delivered on the channel, in order
    pushFailed,     \* push mode: some frame met a closed or missing channel
    outcome,        \* what the caller observed: "none" | "returned" | "raised"
                    \*   | "exhausted" | "abandoned" | "cancelled"
    outcomeVal,     \* the returned string or the name of the raised error
    args,           \* the arguments of the call (history)
    runDone,        \* agent.run / agent.arun has returned or raised to its caller
    phases,         \* the phases the query went through, in order (history)
    \* several pull queries running at once on the one service
    handlersBuilt,  \* handler objects create_agent has constructed so far
    sinkOf,         \* per query: the handler its agent reports to (0: not started)
    heldBy,         \* per query: the handler returned to query_agent_async
    sinks,          \* per handler object: its queue of events
    got,            \* per query: the events yielded to its consumer
    steps,          \* per query: the events its backend has produced
    clientOf,       \* per query: the dataset client its fetch went through
    \* the build of the program
    AgentKind_base  \* "str" | "Enum": what class AgentKind (app/models/chat.py)
                    \*   derives from; fixed for the life of the program

queryVars == <<pc, mode, args, phases, agent, stream_handler, prompt, fetches, runs, taskCreated,
          taskAwaited, run, runText, runDone, iterations, elapsed,
          produced, queue, sinkDone, received, channel, sent, pushFailed,
          outcome, outcomeVal>>

concVars == <<handlersBuilt, sinkOf, heldBy, sinks, got, steps, clientOf>>

buildVars == <<AgentKind_base>>

vars == <<queryVars, concVars, buildVars>>

----------------------------------------------------------------------------
(* Bounds of the model *)

\* most steps one reasoning run takes before the backend must finish or fail
MaxSteps == 3

\* queries running at once on the one service
NumQueries == 2

----------------------------------------------------------------------------
(* Values *)

None == "None"

\* no limit set on the executor (max_execution_time=None)
NoLimit == 0

CHAT_MODELS == {"gpt-4", "gpt-3.5-turbo", "gpt-3.5-turbo-16k",
                "gpt-3.5-turbo-0613", "gpt-3.5-turbo-16k-0613", "gpt-4-32k"}

\* models a caller passes: one chat model, one completion model
Models == {"gpt-4", "text-davinci-003"}

\* AgentKind values the match of create_agent knows
DATAFRAME == "dataframe"
JSON == "json"

\* the members of the AgentKind enumeration, the default of the query
\* operations among them
AgentKind_DATAFRAME == "AgentKind.DATAFRAME"
AgentKind_JSON == "AgentKind.JSON"

\* the value of a member of AgentKind (member.value); a plain string is
\* its own value
AgentKind_value(tag) ==
    CASE tag = AgentKind_DATAFRAME -> DATAFRAME
      [] tag = AgentKind_JSON -> JSON
      [] OTHER -> tag

\* the classes AgentKind can derive from: a string-like enumeration
\* (class AgentKind(str, Enum)) or a plain one (class AgentKind(Enum))
AgentKind_bases == {"str", "Enum"}

\* subject == value under a given base class: a member of a string-like
\* enumeration equals its value, a member of a plain one equals only itself
member_equals(base, tag, value) ==
    IF base = "str" THEN AgentKind_value(tag) = value ELSE tag = value

\* variant: a member never equals its value, whatever the base class
tag_equals_identity(tag, value) == tag = value

\* the comparison a value pattern of the match makes: subject == value,
\* in the build at hand
tag_equals(tag, value) == member_equals(AgentKind_base, tag, value)

\* strategy tags a caller passes: the two known ones, as values and as members
\* of AgentKind, and an unknown one
AgentKinds == {DATAFRAME, JSON, AgentKind_DATAFRAME, AgentKind_JSON, "xml"}

\* a table is known by its shape <<rows, columns>>
EmptyTable == <<0, 0>>
SourceError == <<-1, -1>>

\* the dataset source: what compare_dataframe does for each comparison id
ComparisonIds == {"R1", "R0", "Rx"}
DatasetSource(comparison_id) ==
    CASE comparison_id = "R1" -> <<3, 2>>
      [] comparison_id = "R0" -> EmptyTable
      [] OTHER -> SourceError

\* DataFrame.T
Transpose(table) == <<table[2], table[1]>>

QueryTexts == {"How many papers?", "Which years?"}

Template == "This is a table of data extracted from the ORKG [...] Below is the query. Query: "

\* the executor's answer when it stops on its time or iteration budget
StopMessage == "Agent stopped due to iteration limit or time limit."
FinalAnswer == "final answer"

NoAgent == [kind |-> None, table |-> EmptyTable, llm |-> None,
            callback_manager |-> None, include_df_in_prompt |-> FALSE,
            handle_parsing_errors |-> FALSE, max_execution_time |-> NoLimit,
            max_value_length |-> 0]

NoArgs == [comparison_id |-> None, query |-> None, model |-> None,
           agent_kind |-> None, async_agent |-> FALSE,
           websocket |-> None, ws_manager |-> None]

Thought(n, text) == [kind |-> "thought", n |-> n, text |-> text]
Answer(text) == [kind |-> "answer", n |-> 0, text |-> text]

----------------------------------------------------------------------------
(* create_agent and initialize_components *)

\* variant: the push handler is built when either of the two is given
select_stream_handler_either(websocket, ws_manager) ==
    IF websocket # None \/ ws_manager # None THEN "ws" ELSE "async"

\* the handler create_agent builds and returns
select_stream_handler(websocket, ws_manager) ==
    IF websocket # None /\ ws_manager # None THEN "ws" ELSE "async"

\* variant: the callback manager is kept when async_agent is false
select_handler_manager_kept(async_agent, websocket, ws_manager) ==
    IF websocket # None /\ ws_manager # None THEN "base" ELSE "async"

\* the callback manager create_agent attaches to the agent
select_handler_manager(async_agent, websocket, ws_manager) ==
    IF websocket # None /\ ws_manager # None
    THEN "base"
    ELSE IF ~async_agent THEN None ELSE "async"

select_llm_model(model) ==
    IF model \in CHAT_MODELS THEN "ChatOpenAI" ELSE "OpenAI"

json_max_value_length(llm) ==
    IF llm # "ChatOpenAI" THEN 4000 ELSE 13000

\* create_custom_pandas_dataframe_agent(llm, comparison, ...)
dataframe_agent(llm, comparison, handler_manager) ==
    [kind |-> DATAFRAME, table |-> comparison, llm |-> llm,
     callback_manager |-> handler_manager, include_df_in_prompt |-> TRUE,
     handle_parsing_errors |-> TRUE, max_execution_time |-> NoLimit,
     max_value_length |-> 0]

\* create_json_agent(llm, JsonToolkit(JsonSpec(comparison.T.to_dict(), ...)), ...)
json_agent(llm, comparison, handler_manager) ==
    [kind |-> JSON, table |-> Transpose(comparison), llm |-> llm,
     callback_manager |-> handler_manager, include_df_in_prompt |-> FALSE,
     handle_parsing_errors |-> TRUE, max_execution_time |-> 1,
     max_value_length |-> json_max_value_length(llm)]

\* variant: an unknown kind falls back to the DataFrame agent
match_agent_kind_default(agent_kind, llm, comparison, handler_manager, handler) ==
    IF tag_equals(agent_kind, JSON)
    THEN [raised |-> None, handler |-> handler,
          agent |-> json_agent(llm, comparison, handler_manager)]
    ELSE [raised |-> None, handler |-> handler,
          agent |-> dataframe_agent(llm, comparison, handler_manager)]

\* the match statement of create_agent, applied to the fetched table
match_agent_kind(agent_kind, llm, comparison, handler_manager, handler) ==
    CASE tag_equals(agent_kind, DATAFRAME) ->
            [raised |-> None, handler |-> handler,
             agent |-> dataframe_agent(llm, comparison, handler_manager)]
      [] tag_equals(agent_kind, JSON) ->
            [raised |-> None, handler |-> handler,
             agent |-> json_agent(llm, comparison, handler_manager)]
      [] OTHER ->
            [raised |-> "NotImplementedError", handler |-> "none",
             agent |-> NoAgent]

\* create_agent: handler, llm, fetch of the comparison, then the match.
\* fetched counts the calls of compare_dataframe the call made.
create_agent(comparison_id, model, agent_kind, async_agent, websocket, ws_manager) ==
    LET handler == select_stream_handler(websocket, ws_manager)
        handler_manager == select_handler_manager(async_agent, websocket, ws_manager)
        llm == select_llm_model(model)
        fetched == DatasetSource(comparison_id)
    IN  IF fetched = SourceError
        THEN [raised |-> "DatasetUnavailable", handler |-> "none",
              agent |-> NoAgent, fetched |-> 1, trace |-> <<"FETCHING">>]
        ELSE [fetched |-> 1, trace |-> <<"FETCHING">>] @@
             match_agent_kind(agent_kind, llm, Transpose(fetched),
                              handler_manager, handler)

initialize_agent(comparison_id, model, agent_kind, async_agent, websocket, ws_manager) ==
    create_agent(comparison_id, model, agent_kind, async_agent, websocket, ws_manager)

\* variant: the query comes first, the template after it
render_prompt_query_first(query) == query \o Template

\* the prompt of initialize_components: the template, then the query
render_prompt(query) == Template \o query

\* initialize_components: the agent and its handler, then the prompt
initialize_components(comparison_id, query, model, agent_kind, async_agent, websocket, ws_manager) ==
    LET c == initialize_agent(comparison_id, model, agent_kind, async_agent,
                              websocket, ws_manager)
    IN  IF c.raised # None
        THEN [prompt |-> ""] @@ c
        ELSE [prompt |-> render_prompt(query),
              trace |-> Append(c.trace, "PROMPTING")] @@ c

----------------------------------------------------------------------------
(* State after construction of the service *)

QueryIds == 1..NumQueries

\* the one client the service holds: self.orkg_client, set in __init__
orkg_client == "orkg_client"

Init ==
    /\ AgentKind_base \in AgentKind_bases
    /\ pc = "idle"
    /\ mode = "none"
    /\ args = NoArgs
    /\ agent = NoAgent
    /\ stream_handler = "none"
    /\ prompt = ""
    /\ fetches = 0
    /\ runs = 0
    /\ taskCreated = FALSE
    /\ taskAwaited = FALSE
    /\ run = "none"
    /\ runText = ""
    /\ iterations = 0
    /\ elapsed = 0
    /\ produced = <<>>
    /\ queue = <<>>
    /\ sinkDone = FALSE
    /\ received = <<>>
    /\ channel = "none"
    /\ sent = <<>>
    /\ pushFailed = FALSE
    /\ outcome = "none"
    /\ outcomeVal = ""
    /\ runDone = FALSE
    /\ phases = <<>>
    /\ handlersBuilt = 0
    /\ sinkOf = [q \in QueryIds |-> 0]
    /\ heldBy = [q \in QueryIds |-> 0]
    /\ sinks = [h \in QueryIds |-> <<>>]
    /\ got = [q \in QueryIds |-> <<>>]
    /\ steps = [q \in QueryIds |-> 0]
    /\ clientOf = [q \in QueryIds |-> None]

----------------------------------------------------------------------------
(* The three query operations, up to the launch of the reasoning run *)

runVars == <<run, runText, runDone, iterations, elapsed, produced>>
sinkVars == <<queue, sinkDone, received, sent, pushFailed>>

\* variant: every mode counts as streaming
waiting_phase_streaming(m) == "STREAMING"

\* the phase of a query whose run was launched: the caller of query_agent is
\* blocked in agent.run, the other two modes stream while the run goes on
waiting_phase(m) == IF m = "blocking" THEN "BLOCKED" ELSE "STREAMING"

\* the part the three operations share: initialize_components, then either
\* the error it raised reaches the caller or the run is launched
Launch(m, c) ==
    /\ pc = "idle"
    /\ mode' = m
    /\ agent' = c.agent
    /\ stream_handler' = c.handler
    /\ prompt' = c.prompt
    /\ fetches' = fetches + c.fetched
    /\ taskAwaited' = FALSE
    /\ IF c.raised # None
       THEN /\ pc' = "done"
            /\ outcome' = "raised"
            /\ outcomeVal' = c.raised
            /\ phases' = Append(c.trace, "FAILED")
            /\ UNCHANGED <<runs, run, taskCreated>>
       ELSE /\ pc' = IF m = "pull" THEN "streaming" ELSE "running"
            /\ runs' = runs + 1
            /\ run' = "active"
            /\ taskCreated' = (m = "pull")
            /\ phases' = c.trace \o <<"DISPATCHED", waiting_phase(m)>>
            /\ UNCHANGED <<outcome, outcomeVal>>
    /\ UNCHANGED <<runText, runDone, iterations, elapsed, produced>>
    /\ UNCHANGED sinkVars
    /\ UNCHANGED concVars
    /\ UNCHANGED buildVars

\* query_agent: initialize_components(..., False), then agent.run(prompt)
query_agent ==
    \E cid \in ComparisonIds, q \in QueryTexts, mdl \in Models, kind \in AgentKinds :
        /\ Launch("blocking",
                  initialize_components(cid, q, mdl, kind, FALSE, None, None))
        /\ args' = [comparison_id |-> cid, query |-> q, model |-> mdl,
                    agent_kind |-> kind, async_agent |-> FALSE,
                    websocket |-> None, ws_manager |-> None]
        /\ channel' = "none"

\* query_agent_async, first resumption of the generator:
\* initialize_components(..., True), then asyncio.create_task(agent.arun(prompt))
query_agent_async ==
    \E cid \in ComparisonIds, q \in QueryTexts, mdl \in Models, kind \in AgentKinds :
        /\ Launch("pull",
                  initialize_components(cid, q, mdl, kind, TRUE, None, None))
        /\ args' = [comparison_id |-> cid, query |-> q, model |-> mdl,
                    agent_kind |-> kind, async_agent |-> TRUE,
                    websocket |-> None, ws_manager |-> None]
        /\ channel' = "none"

\* query_agent_ws: initialize_components(..., async_agent=False, websocket,
\* ws_manager), then await agent.arun(prompt)
query_agent_ws ==
    \E cid \in ComparisonIds, q \in QueryTexts, mdl \in Models, kind \in AgentKinds,
       ws \in {None, "ws1"}, mgr \in {None, "manager"},
       ch \in {"open", "closed", "missing"} :
        /\ Launch("push",
                  initialize_components(cid, q, mdl, kind, FALSE, ws, mgr))
        /\ args' = [comparison_id |-> cid, query |-> q, model |-> mdl,
                    agent_kind |-> kind, async_agent |-> FALSE,
                    websocket |-> ws, ws_manager |-> mgr]
        /\ channel' = IF ws = None THEN "none" ELSE ch

\* initialize_agent called on its own: the agent and its handler are built
\* and returned, nothing is run
initialize_agent_call ==
    \E cid \in ComparisonIds, mdl \in Models, kind \in AgentKinds,
       async_agent \in BOOLEAN, ws \in {None, "ws1"}, mgr \in {None, "manager"} :
        LET c == initialize_agent(cid, mdl, kind, async_agent, ws, mgr)
        IN  /\ pc = "idle"
            /\ pc' = "done"
            /\ mode' = "direct"
            /\ args' = [comparison_id |-> cid, query |-> None, model |-> mdl,
                        agent_kind |-> kind, async_agent |-> async_agent,
                        websocket |-> ws, ws_manager |-> mgr]
            /\ agent' = c.agent
            /\ stream_handler' = c.handler
            /\ fetches' = fetches + c.fetched
            /\ outcome' = IF c.raised # None THEN "raised" ELSE "returned"
            /\ outcomeVal' = IF c.raised # None THEN c.raised ELSE ""
            /\ UNCHANGED <<prompt, runs, taskCreated, taskAwaited, channel, phases>>
            /\ UNCHANGED runVars
            /\ UNCHANGED concVars
            /\ UNCHANGED buildVars
            /\ UNCHANGED sinkVars

\* initialize_components called on its own: the agent and its handler are
\* built, the prompt is rendered, all three are returned and nothing is run
initialize_components_call ==
    \E cid \in ComparisonIds, q \in QueryTexts, mdl \in Models, kind \in AgentKinds,
       async_agent \in BOOLEAN, ws \in {None, "ws1"}, mgr \in {None, "manager"} :
        LET c == initialize_components(cid, q, mdl, kind, async_agent, ws, mgr)
        IN  /\ pc = "idle"
            /\ pc' = "done"
            /\ mode' = "components"
            /\ args' = [comparison_id |-> cid, query |-> q, model |-> mdl,
                        agent_kind |-> kind, async_agent |-> async_agent,
                        websocket |-> ws, ws_manager |-> mgr]
            /\ agent' = c.agent
            /\ stream_handler' = c.handler
            /\ prompt' = c.prompt
            /\ fetches' = fetches + c.fetched
            /\ outcome' = IF c.raised # None THEN "raised" ELSE "returned"
            /\ outcomeVal' = IF c.raised # None THEN c.raised ELSE ""
            /\ UNCHANGED <<runs, taskCreated, taskAwaited, channel, phases>>
            /\ UNCHANGED runVars
            /\ UNCHANGED concVars
            /\ UNCHANGED buildVars
            /\ UNCHANGED sinkVars

----------------------------------------------------------------------------
(* The event sinks: what a handler does with an event of the run *)

\* AsyncStreamThoughtsAndAnswerHandler: the event joins the internal queue
PullSink_put(q, ev) == Append(q, ev)

\* AsyncStreamThoughtsAndAnswerHandler: the sequence ends once the answer was
\* queued or the producer failed
PullSink_done(ev_kind) == ev_kind \in {"answer", "failure"}

\* WSStreamThoughtsAndAnswerHandler / ConnectionManager: the frame is sent
\* when the channel is open; on a closed or missing channel the push fails
\* and the frame is dropped
PushSink_send(frames, ch, ev) == IF ch = "open" THEN Append(frames, ev) ELSE frames
PushSink_failed(ch) == ch # "open"

\* the callback manager of the agent hands the event to its handler; an
\* agent built without a callback manager reports to nobody
Emit(ev) ==
    /\ produced' = Append(produced, ev)
    /\ queue' = IF agent.callback_manager = "async"
                THEN PullSink_put(queue, ev) ELSE queue
    /\ sinkDone' = IF agent.callback_manager = "async"
                   THEN sinkDone \/ PullSink_done(ev.kind) ELSE sinkDone
    /\ sent' = IF agent.callback_manager = "base"
               THEN PushSink_send(sent, channel, ev) ELSE sent
    /\ pushFailed' = IF agent.callback_manager = "base"
                     THEN pushFailed \/ PushSink_failed(channel) ELSE pushFailed

\* the run ended in an error: the pull sink learns that its producer failed
EmitFailure ==
    /\ sinkDone' = IF agent.callback_manager = "async"
                   THEN sinkDone \/ PullSink_done("failure") ELSE sinkDone
    /\ UNCHANGED <<produced, queue, sent, pushFailed>>

----------------------------------------------------------------------------
(* The reasoning run: agent.run(prompt) / agent.arun(prompt) *)

callVars == <<pc, mode, args, phases, agent, stream_handler, prompt, fetches, runs,
              taskCreated, taskAwaited, channel, received, outcome, outcomeVal>>

\* the executor goes on while its execution budget is not used up
should_continue(a, time_elapsed) ==
    a.max_execution_time = NoLimit \/ time_elapsed < a.max_execution_time

\* what the executor does with a malformed backend output
parsing_error_raises(a) == ~a.handle_parsing_errors

Stepping == run = "active" /\ should_continue(agent, elapsed)

\* the backend chose a tool action: one Thought, one more iteration
AgentAction ==
    /\ Stepping
    /\ iterations < MaxSteps
    /\ \E d \in 0..1 : elapsed' = elapsed + d
    /\ iterations' = iterations + 1
    /\ Emit(Thought(iterations + 1, "action"))
    /\ UNCHANGED <<run, runText>>
    /\ UNCHANGED runDone
    /\ UNCHANGED callVars
    /\ UNCHANGED concVars
    /\ UNCHANGED buildVars

\* the backend's output could not be parsed: with handle_parsing_errors the
\* error becomes the observation of an "_Exception" action and the run goes
\* on, without it the run raises
AgentParseError ==
    /\ Stepping
    /\ iterations < MaxSteps
    /\ IF parsing_error_raises(agent)
       THEN /\ run' = "failed"
            /\ runText' = "OutputParserException"
            /\ EmitFailure
            /\ UNCHANGED <<iterations, elapsed>>
       ELSE /\ \E d \in 0..1 : elapsed' = elapsed + d
            /\ iterations' = iterations + 1
            /\ Emit(Thought(iterations + 1, "exception"))
            /\ UNCHANGED <<run, runText>>
    /\ UNCHANGED runDone
    /\ UNCHANGED callVars
    /\ UNCHANGED concVars
    /\ UNCHANGED buildVars

\* the backend gave its final answer: one Answer, the run returns its text
AgentFinish ==
    /\ Stepping
    /\ run' = "finished"
    /\ runText' = FinalAnswer
    /\ Emit(Answer(FinalAnswer))
    /\ UNCHANGED <<iterations, elapsed>>
    /\ UNCHANGED runDone
    /\ UNCHANGED callVars
    /\ UNCHANGED concVars
    /\ UNCHANGED buildVars

\* the backend failed (the model call raised): the run raises
AgentError ==
    /\ Stepping
    /\ run' = "failed"
    /\ runText' = "BackendError"
    /\ EmitFailure
    /\ UNCHANGED <<iterations, elapsed>>
    /\ UNCHANGED runDone
    /\ UNCHANGED callVars
    /\ UNCHANGED concVars
    /\ UNCHANGED buildVars

\* the execution budget is used up: the executor stops the run and returns
\* its stop response as the answer of the run
AgentStop ==
    /\ run = "active"
    /\ ~should_continue(agent, elapsed)
    /\ run' = "stopped"
    /\ runText' = StopMessage
    /\ Emit(Answer(StopMessage))
    /\ UNCHANGED <<iterations, elapsed>>
    /\ UNCHANGED runDone
    /\ UNCHANGED callVars
    /\ UNCHANGED concVars
    /\ UNCHANGED buildVars

\* the callbacks of the last step are through: agent.run / agent.arun returns
\* or raises, and in pull mode the task is done; a task that was cancelled
\* while running neither returns nor raises its failure
RunComplete ==
    /\ run \in {"finished", "stopped", "failed"}
    /\ ~runDone
    /\ pc # "cancelled"
    /\ runDone' = TRUE
    /\ UNCHANGED <<run, runText, iterations, elapsed, produced>>
    /\ UNCHANGED sinkVars
    /\ UNCHANGED callVars
    /\ UNCHANGED concVars
    /\ UNCHANGED buildVars

----------------------------------------------------------------------------
(* Transport and callers *)

\* response.__str__() of the str the run returned
ToStr(response) == response

\* the push channel closes while the session is running
CloseChannel ==
    /\ mode = "push"
    /\ pc = "running"
    /\ channel = "open"
    /\ channel' = "closed"
    /\ UNCHANGED <<pc, mode, args, phases, agent, stream_handler, prompt, fetches, runs,
                   taskCreated, taskAwaited, received, outcome, outcomeVal>>
    /\ UNCHANGED runVars
    /\ UNCHANGED concVars
    /\ UNCHANGED buildVars
    /\ UNCHANGED <<queue, sinkDone, sent, pushFailed>>

\* variant: a failed run is started once more
ReturnResponse_retry ==
    /\ pc = "running"
    /\ run \in {"finished", "stopped", "failed"}
    /\ runDone
    /\ IF run = "failed" /\ runs < 2
       THEN /\ runs' = runs + 1
            /\ run' = "active"
            /\ runDone' = FALSE
            /\ UNCHANGED <<pc, outcome, outcomeVal, phases>>
       ELSE /\ pc' = "done"
            /\ phases' = Append(phases, IF run = "failed" THEN "FAILED" ELSE "COMPLETED")
            /\ IF run = "failed"
               THEN outcome' = "raised" /\ outcomeVal' = runText
               ELSE outcome' = "returned" /\ outcomeVal' = ToStr(runText)
            /\ UNCHANGED <<runs, run, runDone>>
    /\ UNCHANGED <<mode, args, agent, stream_handler, prompt, fetches,
                   taskCreated, taskAwaited, channel>>
    /\ UNCHANGED <<runText, iterations, elapsed, produced>>
    /\ UNCHANGED sinkVars
    /\ UNCHANGED concVars
    /\ UNCHANGED buildVars

\* variant: a failed push makes query_agent_ws fail
ReturnResponse_push_checked ==
    /\ pc = "running"
    /\ run \in {"finished", "stopped", "failed"}
    /\ runDone
    /\ pc' = "done"
    /\ IF run = "failed" \/ pushFailed
       THEN outcome' = "raised" /\ outcomeVal' = "ChannelClosed"
       ELSE outcome' = "returned" /\ outcomeVal' = ToStr(runText)
    /\ phases' = Append(phases, IF run = "failed" THEN "FAILED" ELSE "COMPLETED")
    /\ UNCHANGED <<mode, args, agent, stream_handler, prompt, fetches, runs,
                   taskCreated, taskAwaited, channel>>
    /\ UNCHANGED runVars
    /\ UNCHANGED concVars
    /\ UNCHANGED buildVars
    /\ UNCHANGED sinkVars

\* query_agent / query_agent_ws: agent.run / await agent.arun is over; the
\* answer is returned as a string or the error of the run reaches the caller
ReturnResponse ==
    /\ pc = "running"
    /\ run \in {"finished", "stopped", "failed"}
    /\ runDone
    /\ pc' = "done"
    /\ IF run = "failed"
       THEN outcome' = "raised" /\ outcomeVal' = runText
       ELSE outcome' = "returned" /\ outcomeVal' = ToStr(runText)
    /\ phases' = Append(phases, IF run = "failed" THEN "FAILED" ELSE "COMPLETED")
    /\ UNCHANGED <<mode, args, agent, stream_handler, prompt, fetches, runs,
                   taskCreated, taskAwaited, channel>>
    /\ UNCHANGED runVars
    /\ UNCHANGED concVars
    /\ UNCHANGED buildVars
    /\ UNCHANGED sinkVars

\* variant: the newest log is handed over first
yield_log_front(rcv, log) == <<log>> \o rcv

\* variant: a log is yielded twice
yield_log_twice(rcv, log) == Append(Append(rcv, log), log)

\* what one `yield log` of query_agent_async hands to the consumer
yield_log(rcv, log) == Append(rcv, log)

\* query_agent_async: `async for log in stream_handler.action_logs(): yield log`
DrainLog ==
    /\ pc = "streaming"
    /\ queue # <<>>
    /\ received' = yield_log(received, Head(queue))
    /\ queue' = Tail(queue)
    /\ UNCHANGED <<pc, mode, args, phases, agent, stream_handler, prompt, fetches, runs,
                   taskCreated, taskAwaited, channel, outcome, outcomeVal>>
    /\ UNCHANGED runVars
    /\ UNCHANGED concVars
    /\ UNCHANGED buildVars
    /\ UNCHANGED <<sinkDone, sent, pushFailed>>

\* query_agent_async: action_logs() is exhausted, the loop ends
DrainEnd ==
    /\ pc = "streaming"
    /\ queue = <<>>
    /\ sinkDone
    /\ pc' = "await_task"
    /\ UNCHANGED <<mode, args, phases, agent, stream_handler, prompt, fetches, runs,
                   taskCreated, taskAwaited, channel, outcome, outcomeVal>>
    /\ UNCHANGED runVars
    /\ UNCHANGED concVars
    /\ UNCHANGED buildVars
    /\ UNCHANGED sinkVars

\* variant: the sequence ends without waiting for the task to be done
AwaitTask_unconfirmed ==
    /\ pc = "await_task"
    /\ pc' = "done"
    /\ taskAwaited' = TRUE
    /\ outcome' = "exhausted"
    /\ outcomeVal' = ""
    /\ phases' = Append(phases, "COMPLETED")
    /\ UNCHANGED <<mode, args, agent, stream_handler, prompt, fetches, runs,
                   taskCreated, channel>>
    /\ UNCHANGED runVars
    /\ UNCHANGED concVars
    /\ UNCHANGED buildVars
    /\ UNCHANGED sinkVars

\* variant: the task is not awaited, the sequence just ends
AwaitTask_skipped ==
    /\ pc = "await_task"
    /\ run \in {"finished", "stopped", "failed"}
    /\ runDone
    /\ pc' = "done"
    /\ outcome' = "exhausted"
    /\ outcomeVal' = ""
    /\ phases' = Append(phases, "COMPLETED")
    /\ UNCHANGED <<mode, args, agent, stream_handler, prompt, fetches, runs,
                   taskCreated, taskAwaited, channel>>
    /\ UNCHANGED runVars
    /\ UNCHANGED concVars
    /\ UNCHANGED buildVars
    /\ UNCHANGED sinkVars

\* query_agent_async: `await task`; the sequence ends or the error of the
\* task is raised to the consumer
AwaitTask ==
    /\ pc = "await_task"
    /\ run \in {"finished", "stopped", "failed"}
    /\ runDone
    /\ pc' = "done"
    /\ taskAwaited' = TRUE
    /\ IF run = "failed"
       THEN outcome' = "raised" /\ outcomeVal' = runText
       ELSE outcome' = "exhausted" /\ outcomeVal' = ""
    /\ phases' = Append(phases, IF run = "failed" THEN "FAILED" ELSE "COMPLETED")
    /\ UNCHANGED <<mode, args, agent, stream_handler, prompt, fetches, runs,
                   taskCreated, channel>>
    /\ UNCHANGED runVars
    /\ UNCHANGED concVars
    /\ UNCHANGED buildVars
    /\ UNCHANGED sinkVars

\* the consumer of query_agent_async stops. In the loop (lines 169-170) the
\* generator is closed or cancelled where it is suspended, nothing after the
\* loop is executed and the task is left as it is. In `await task` (line 172)
\* the cancellation of the consumer ends the generator with CancelledError,
\* whether the task is still running (it is cancelled with the consumer) or is
\* done already and the generator only waits to be resumed (its result or
\* failure is then never retrieved): the await never completes and nothing of
\* the task is raised.
ConsumerStop ==
    /\ \/ /\ pc = "streaming"
          /\ pc' = "closed"
          /\ outcome' = "abandoned"
          /\ UNCHANGED outcomeVal
       \/ /\ pc = "await_task"
          /\ pc' = "cancelled"
          /\ outcome' = "cancelled"
          /\ outcomeVal' = "CancelledError"
    /\ UNCHANGED <<mode, args, phases, agent, stream_handler, prompt, fetches, runs,
                   taskCreated, taskAwaited, channel>>
    /\ UNCHANGED runVars
    /\ UNCHANGED concVars
    /\ UNCHANGED buildVars
    /\ UNCHANGED sinkVars

----------------------------------------------------------------------------
(* Several pull queries at once on one service *)

\* variant: one handler object is built once and used by every call
new_stream_handler_shared(built) == 1

\* create_agent constructs its handler: a new object in every call
new_stream_handler(built) == built + 1

\* query_agent_async of query q, first resumption: the fetch goes through the
\* client of the service, create_agent builds the handler of this call, binds
\* it to the agent and returns it
ConcStart(q) ==
    /\ sinkOf[q] = 0
    /\ LET h == new_stream_handler(handlersBuilt)
       IN  /\ handlersBuilt' = handlersBuilt + 1
           /\ sinkOf' = [sinkOf EXCEPT ![q] = h]
           /\ heldBy' = [heldBy EXCEPT ![q] = h]
    /\ clientOf' = [clientOf EXCEPT ![q] = orkg_client]
    /\ UNCHANGED <<sinks, got, steps>>
    /\ UNCHANGED queryVars
    /\ UNCHANGED buildVars

\* the run of query q produces an event: its callback manager hands it to the
\* handler bound to its agent
ConcStep(q) ==
    /\ sinkOf[q] # 0
    /\ steps[q] < MaxSteps
    /\ steps' = [steps EXCEPT ![q] = @ + 1]
    /\ sinks' = [sinks EXCEPT ![sinkOf[q]] =
                    PullSink_put(@, [query |-> q, n |-> steps[q] + 1])]
    /\ UNCHANGED <<handlersBuilt, sinkOf, heldBy, got, clientOf>>
    /\ UNCHANGED queryVars
    /\ UNCHANGED buildVars

\* the consumer of query q is yielded the next log of the handler that
\* query_agent_async of q holds
ConcDrain(q) ==
    /\ heldBy[q] # 0
    /\ sinks[heldBy[q]] # <<>>
    /\ got' = [got EXCEPT ![q] = yield_log(@, Head(sinks[heldBy[q]]))]
    /\ sinks' = [sinks EXCEPT ![heldBy[q]] = Tail(@)]
    /\ UNCHANGED <<handlersBuilt, sinkOf, heldBy, steps, clientOf>>
    /\ UNCHANGED queryVars
    /\ UNCHANGED buildVars

ConcNext ==
    \/ \E q \in QueryIds : ConcStart(q)
    \/ \E q \in QueryIds : ConcStep(q)
    \/ \E q \in QueryIds : ConcDrain(q)

----------------------------------------------------------------------------
(* Specifications *)

Next ==
    \/ query_agent
    \/ query_agent_async
    \/ query_agent_ws
    \/ initialize_agent_call
    \/ initialize_components_call
    \/ AgentAction
    \/ AgentParseError
    \/ AgentFinish
    \/ AgentError
    \/ AgentStop
    \/ RunComplete
    \/ CloseChannel
    \/ ReturnResponse
    \/ DrainLog
    \/ DrainEnd
    \/ AwaitTask
    \/ ConsumerStop

Spec == Init /\ [][Next]_vars

ConcSpec == Init /\ [][ConcNext]_vars

\* the event loop runs every coroutine that is ready: the run makes progress,
\* a caller waiting on it is resumed, and a consumer that goes on draining is
\* served; nothing obliges the consumer not to stop
FairSpec ==
    /\ Spec
    /\ WF_vars(AgentAction \/ AgentParseError \/ AgentFinish \/ AgentError \/ AgentStop)
    /\ WF_vars(RunComplete)
    /\ WF_vars(ReturnResponse)
    /\ WF_vars(DrainLog)
    /\ WF_vars(DrainEnd)
    /\ WF_vars(AwaitTask)

----------------------------------------------------------------------------
(* Properties *)

IsPrefix(s, t) == Len(s) <= Len(t) /\ \A i \in 1..Len(s) : s[i] = t[i]

Thoughts(s) == {i \in 1..Len(s) : s[i].kind = "thought"}
Answers(s) == {i \in 1..Len(s) : s[i].kind = "answer"}

\* zero or more Thoughts, then at most one Answer, which is last
ThoughtsThenAnswer(s) == \A i \in Answers(s) : i = Len(s)

TaskSucceeded == run \in {"finished", "stopped"}
KnownKind(kind) == AgentKind_value(kind) \in {DATAFRAME, JSON}
Called == pc # "idle"

\* C1: in pull mode, when the task succeeds, the consumer is handed the
\* Thoughts the backend produced and then one Answer, nothing after it, and
\* the drained sequence has N + 1 events for N Thoughts produced.
C1_PullSuccessSequence ==
    (mode = "pull" /\ TaskSucceeded) =>
        /\ IsPrefix(received, produced)
        /\ ThoughtsThenAnswer(received)
        /\ pc = "done" =>
              /\ outcome = "exhausted"
              /\ received = produced
              /\ Cardinality(Answers(received)) = 1
              /\ Len(received) = iterations + 1

C1_Witness ==
    /\ mode = "pull" /\ pc = "done" /\ outcome = "exhausted"
    /\ run = "finished"
    /\ Len(received) = 3

\* C2: in pull mode, when the task fails, the consumer has been handed only
\* Thoughts, a prefix of those produced, never an Answer, and the sequence
\* never ends as exhausted; the loop always ends, so a consumer that goes on
\* draining and is not cancelled reaches `await task`, which raises the
\* failure of the task; the only other ends are the consumer's own: it closed
\* the generator in the loop or was cancelled in `await task`.
C2_PullFailureSurfaces ==
    /\ []((mode = "pull" /\ run = "failed") =>
            /\ IsPrefix(received, produced)
            /\ Answers(received) = {}
            /\ outcome \notin {"exhausted", "returned"}
            /\ pc = "done" => (taskAwaited /\ outcome = "raised"
                                           /\ outcomeVal = runText)
            /\ pc = "cancelled" => (~taskAwaited /\ outcome = "cancelled"
                                                /\ outcomeVal = "CancelledError"))
    /\ ((mode = "pull" /\ run = "failed")
          ~> (pc \in {"closed", "cancelled"}
              \/ (pc = "done" /\ taskAwaited /\ outcome = "raised"
                                /\ outcomeVal = runText)))
    /\ ((mode = "pull" /\ run = "failed" /\ pc = "streaming")
          ~> (pc \in {"closed", "await_task", "cancelled", "done"}))

C2_Witness ==
    /\ mode = "pull" /\ pc = "done" /\ run = "failed"
    /\ outcome = "raised" /\ outcomeVal = "BackendError"
    /\ Len(received) = 2

\* C3: once a pull-mode consumer has stopped draining, the coordinator
\* eventually awaits the background task.
C3_AbandonedTaskAwaited ==
    (mode = "pull" /\ pc = "closed" /\ taskCreated) ~> taskAwaited

\* C4: in push mode a closed or missing channel neither fails nor blocks the
\* query: the query ends, with the answer of the run as its returned string
\* whenever the run produced one, and an error only when the run itself failed.
C4_PushAnswerDespiteChannel ==
    /\ []((mode = "push" /\ pc = "done" /\ runs = 1) =>
            /\ TaskSucceeded => (outcome = "returned" /\ outcomeVal = runText)
            /\ run = "failed" => (outcome = "raised" /\ outcomeVal = runText))
    /\ ((mode = "push" /\ pushFailed) ~> (pc = "done"))

C4_Witness ==
    /\ mode = "push" /\ pc = "done" /\ channel = "closed"
    /\ pushFailed /\ sent # <<>>
    /\ outcome = "returned" /\ outcomeVal = FinalAnswer

\* C5: a request with an unknown strategy tag fails with the
\* unsupported-variant error and compare_dataframe is never called for it.
C5_UnsupportedBeforeFetch ==
    (Called /\ ~KnownKind(args.agent_kind)) =>
        /\ fetches = 0
        /\ outcome = "raised" /\ outcomeVal = "NotImplementedError"

\* C6: a query whose dataset fetch fails or whose strategy tag is unknown
\* ends with that error and never starts a reasoning run or a background task.
C6_NoRunOnSetupError ==
    /\ (outcome = "raised"
          /\ outcomeVal \in {"DatasetUnavailable", "NotImplementedError"}) =>
            (runs = 0 /\ run = "none" /\ ~taskCreated /\ produced = <<>>)
    /\ (Called /\ (DatasetSource(args.comparison_id) = SourceError
                      \/ ~KnownKind(args.agent_kind))) =>
            /\ pc = "done" /\ outcome = "raised"
            /\ outcomeVal \in {"DatasetUnavailable", "NotImplementedError"}
            /\ runs = 0 /\ run = "none" /\ ~taskCreated

C6_Witness ==
    /\ mode = "pull" /\ pc = "done" /\ outcome = "raised"
    /\ outcomeVal = "NotImplementedError"
    /\ DatasetSource(args.comparison_id) # SourceError
    /\ runs = 0

\* C7: when the dataset source raises or returns an empty result, the query
\* fails with DatasetUnavailable; no session is built and no run is started.
C7_EmptyOrFailedFetch ==
    (Called /\ DatasetSource(args.comparison_id) \in {SourceError, EmptyTable}) =>
        /\ outcome = "raised" /\ outcomeVal = "DatasetUnavailable"
        /\ agent = NoAgent
        /\ runs = 0

\* C8: in blocking mode the agent has no callback manager, no event reaches
\* a queue, a consumer or a channel, and the call only returns or raises.
C8_BlockingHidesThoughts ==
    mode = "blocking" =>
        /\ agent.callback_manager = None
        /\ queue = <<>> /\ received = <<>> /\ sent = <<>>
        /\ outcome \in {"none", "returned", "raised"}

C8_Witness ==
    /\ mode = "blocking" /\ pc = "done" /\ outcome = "returned"
    /\ Cardinality(Thoughts(produced)) = 2

\* C9: a JSON session stopped for exceeding max_execution_time ends in an
\* ExecutionTimeout failure; the caller gets no answer string and no Answer.
C9_TimeoutIsFailure ==
    (agent.kind = JSON /\ run = "stopped") =>
        /\ outcome # "returned"
        /\ Answers(received) = {}
        /\ pc = "done" => (outcome = "raised" /\ outcomeVal = "ExecutionTimeout")

\* C10: in blocking and push modes, a run that met a backend error, a
\* malformed backend output or a timeout raises and returns no string.
C10_FailedRunReturnsNothing ==
    (mode \in {"blocking", "push"} /\ pc = "done"
       /\ (run \in {"failed", "stopped"}
            \/ \E i \in 1..Len(produced) : produced[i].text = "exception")) =>
        outcome = "raised"

\* C14: queries running at once are isolated: every started query has a
\* handler of its own, which is the one its consumer drains; a consumer is
\* only ever handed events of its own query, all of them in order; what the
\* queries share is the dataset client of the service.
C14_QueriesIsolated ==
    /\ \A q \in QueryIds : sinkOf[q] # 0 =>
          /\ heldBy[q] = sinkOf[q]
          /\ clientOf[q] = orkg_client
          /\ \A r \in QueryIds \ {q} : sinkOf[r] # sinkOf[q]
          /\ \A i \in 1..Len(got[q]) : got[q][i] = [query |-> q, n |-> i]
          /\ \A i \in 1..Len(sinks[sinkOf[q]]) :
                sinks[sinkOf[q]][i] = [query |-> q, n |-> Len(got[q]) + i]
          /\ Len(got[q]) + Len(sinks[sinkOf[q]]) = steps[q]

C14_Witness ==
    /\ \A q \in QueryIds : sinkOf[q] # 0 /\ steps[q] = 2
    /\ Len(got[1]) = 2 /\ Len(got[2]) = 1

IsQuery == mode \in {"blocking", "pull", "push"}

\* C11: a query starts at most one reasoning run; a failed run is never
\* followed by another one, stays failed, and its error is what the caller
\* gets.
C11_SingleRunNoRetry ==
    /\ [](runs <= 1 /\ (run # "none" <=> runs = 1))
    /\ [][run = "failed" =>
            (runs' = runs /\ run' = "failed" /\ runText' = runText)]_vars
    /\ []((IsQuery /\ pc = "done" /\ run = "failed") =>
            (outcome = "raised" /\ outcomeVal = runText))

C11_Witness ==
    /\ mode = "blocking" /\ pc = "done" /\ runs = 1
    /\ run = "failed" /\ outcome = "raised" /\ outcomeVal = "BackendError"
    /\ iterations = 2

\* the events handed to the consumer of the session's sink
Delivered == IF mode = "pull" THEN received ELSE sent
HasSink == agent.callback_manager # None
SessionOver == pc = "done" /\ runs = 1

\* C12 as stated: in a streaming session the events delivered are exactly the
\* events produced, in order, none lost, and the Answer is the last delivered.
C12_DeliveredExactlyProduced ==
    (mode \in {"pull", "push"} /\ HasSink) =>
        /\ IsPrefix(Delivered, produced)
        /\ SessionOver => Delivered = produced

\* C12 as amended: what is delivered is in the order of production and never
\* duplicated, with an Answer only as the last event; in pull mode nothing is
\* lost (delivered plus still queued is exactly what was produced); in push
\* mode the events produced while the channel is closed or missing are
\* dropped, and nothing is lost while the channel stays open.
C12_DeliveredInOrder ==
    /\ ThoughtsThenAnswer(produced)
    /\ (mode = "pull" /\ HasSink) => received \o queue = produced
    /\ (mode = "push" /\ HasSink) =>
          /\ IsPrefix(sent, produced)
          /\ ~pushFailed => sent = produced
          /\ pushFailed => Len(sent) < Len(produced)

C12_Witness ==
    /\ mode = "push" /\ pc = "done" /\ pushFailed
    /\ Len(sent) = 2 /\ Len(produced) = 4

Completed == mode \in {"pull", "push"} /\ pc = "done"
             /\ outcome \in {"exhausted", "returned"}

\* C13 as stated: a streaming query is completed only when the sink has
\* delivered the Answer (or the pull sequence is exhausted) and the task has
\* confirmed completion.
C13_CompletedAfterDelivery ==
    Completed =>
        /\ \/ Answers(Delivered) # {}
           \/ (mode = "pull" /\ queue = <<>> /\ sinkDone)
        /\ runDone /\ TaskSucceeded

\* C13 as amended: a streaming query is completed only when the run has
\* produced its Answer and handed it to the sink (in pull mode the sequence is
\* exhausted with the Answer delivered; in push mode the Answer frame reaches
\* the channel only if the channel is open) and the run has confirmed
\* completion; in pull mode the task is awaited only after the sequence is
\* exhausted, and a failed run ends the query failed, never completed.
C13_CompletedAfterRunAndSink ==
    /\ Completed =>
          /\ runDone /\ TaskSucceeded
          /\ Answers(produced) # {}
          /\ mode = "pull" =>
                (taskAwaited /\ queue = <<>> /\ sinkDone /\ received = produced)
          /\ (mode = "push" /\ HasSink /\ ~pushFailed) => Answers(sent) # {}
    /\ taskAwaited => (pc = "done" /\ runDone /\ queue = <<>> /\ sinkDone)
    /\ (mode \in {"pull", "push"} /\ pc = "done" /\ run = "failed") =>
          (outcome = "raised" /\ phases[Len(phases)] = "FAILED")

C13_Witness ==
    /\ Completed /\ mode = "push" /\ HasSink
    /\ channel = "missing" /\ sent = <<>> /\ Len(produced) = 3

\* C15: the prompt of every run, in every mode, is the fixed template
\* followed by the query text of the call, unchanged; no run is started
\* without it, and no other prompt is ever rendered.
C15_PromptIsTemplateThenQuery ==
    /\ runs = 1 => prompt = Template \o args.query
    /\ prompt # "" => prompt = Template \o args.query

C15_Witness ==
    /\ mode = "push" /\ runs = 1 /\ args.model = "text-davinci-003"
    /\ args.agent_kind = JSON
    /\ prompt = Template \o "Which years?"

\* C16: once the table is fetched, a DATAFRAME tag gives the DataFrame agent
\* with the table in the prompt and no execution budget, a JSON tag gives the
\* JSON agent over the table transposed back, with the truncation length of
\* its llm and max_execution_time 1; neither ends in the unsupported-variant
\* error. A tag is the value string or, AgentKind being the string-like
\* enumeration the specification describes, the member (the default of the
\* query operations).
C16_VariantMatchesTag ==
    (Called /\ DatasetSource(args.comparison_id) # SourceError) =>
        LET table == DatasetSource(args.comparison_id)
            value == IF AgentKind_base = "str"
                     THEN AgentKind_value(args.agent_kind)
                     ELSE args.agent_kind
        IN  /\ value = DATAFRAME =>
                  /\ agent.kind = DATAFRAME
                  /\ agent.table = Transpose(table)
                  /\ agent.include_df_in_prompt
                  /\ agent.max_execution_time = NoLimit
                  /\ outcome # "raised" \/ outcomeVal = "BackendError"
            /\ value = JSON =>
                  /\ agent.kind = JSON
                  /\ agent.table = table
                  /\ agent.max_value_length =
                        (IF args.model \in CHAT_MODELS THEN 13000 ELSE 4000)
                  /\ agent.max_execution_time = 1
                  /\ outcome # "raised" \/ outcomeVal = "BackendError"

C16_Witness ==
    /\ AgentKind_base = "str"
    /\ IsQuery /\ pc = "done" /\ outcome = "returned"
    /\ args.agent_kind = AgentKind_DATAFRAME
    /\ agent.kind = DATAFRAME /\ agent.include_df_in_prompt
    /\ agent.table = Transpose(DatasetSource(args.comparison_id))
    /\ runs = 1

PhaseRank(p) ==
    CASE p = "FETCHING" -> 1
      [] p = "PROMPTING" -> 2
      [] p = "DISPATCHED" -> 3
      [] p \in {"STREAMING", "BLOCKED"} -> 4
      [] p \in {"COMPLETED", "FAILED"} -> 5

InPhases(p) == \E i \in 1..Len(phases) : phases[i] = p

\* C17: the phases of a query come in the order FETCHING, PROMPTING,
\* DISPATCHED, STREAMING or BLOCKED, COMPLETED or FAILED: the prompt is
\* rendered after the fetch and the build of the agent, the run is launched
\* only with a prompt, STREAMING belongs to pull and push and BLOCKED to
\* blocking, and nothing follows COMPLETED or FAILED.
C17_PhaseOrder ==
    IsQuery =>
        /\ phases # <<>> /\ phases[1] = "FETCHING"
        /\ \A i, j \in 1..Len(phases) :
              i < j => PhaseRank(phases[i]) < PhaseRank(phases[j])
        /\ InPhases("PROMPTING") <=> (fetches = 1 /\ agent # NoAgent)
        /\ InPhases("PROMPTING") <=> prompt # ""
        /\ InPhases("DISPATCHED") <=> runs = 1
        /\ InPhases("DISPATCHED") => InPhases("PROMPTING")
        /\ InPhases("STREAMING") <=> (runs = 1 /\ mode \in {"pull", "push"})
        /\ InPhases("BLOCKED") <=> (runs = 1 /\ mode = "blocking")
        /\ InPhases("COMPLETED") => InPhases("DISPATCHED")
        /\ PhaseRank(phases[Len(phases)]) = 5 <=> pc = "done"

C17_Witness ==
    /\ mode = "blocking"
    /\ phases = <<"FETCHING", "PROMPTING", "DISPATCHED", "BLOCKED", "COMPLETED">>

\* C18: create_agent attaches the push sink exactly when websocket and
\* ws_manager are both given, whatever async_agent is; otherwise the pull
\* sink exactly when async_agent is true; otherwise none; and the handler it
\* returns is the push handler exactly when the push sink is attached.
C18_SinkFromArguments ==
    (Called /\ agent # NoAgent) =>
        LET both == args.websocket # None /\ args.ws_manager # None
        IN  /\ agent.callback_manager = "base" <=> both
            /\ agent.callback_manager = "async" <=> (~both /\ args.async_agent)
            /\ agent.callback_manager = None <=> (~both /\ ~args.async_agent)
            /\ stream_handler = "ws" <=> agent.callback_manager = "base"
            /\ stream_handler = "async" <=> agent.callback_manager # "base"

C18_Witness ==
    /\ mode = "direct" /\ args.async_agent
    /\ args.websocket = None /\ args.ws_manager # None
    /\ agent.callback_manager = "async" /\ stream_handler = "async"

====
